---- MODULE Spec2Model ----
(***************************************************************************)
(* Model of the INDI auto-exposure client qhy5-auto.py: the control thread *)
(* (main -> CCDconnect -> CCDauto -> CCDcapture / CCDgetImg / CCDwriteImg) *)
(* and the notification thread of the INDI transport (updateProperty),     *)
(* which share the global threading.Event blobEvent.                       *)
(* The single-exposure program qhy5-capture.py is modelled on the same     *)
(* state (CaptureSpec).                                                    *)
(*                                                                         *)
(* Exposure times are Python floats.  A time is modelled as                *)
(*     <<a, b, c, err>>   meaning   2^a * 5^b * 7^c microseconds,          *)
(* the exact rational the float approximates, and err in {-1, 0, 1}, the   *)
(* sign of (float - rational).  Every value the program computes from the  *)
(* initial exposures below has this form: /2 and *2 are exact in binary    *)
(* floating point, *1.4 is *7/5 and /1.4 is *5/7, both rounded.  A rounded *)
(* result may lie on either side of its rational; that only matters to a   *)
(* comparison when the rational equals the value compared with, which      *)
(* needs c = 0, so err is kept for c = 0 and is 0 otherwise.               *)
(***************************************************************************)
EXTENDS Integers, Naturals, Sequences, FiniteSets, TLC

\* ------------------------------------------------------------ constants

MAXTRY == 15
MEANADU == 128
DEVADU == 20
MINGAIN == 1
MAXGAIN == 29
STEPGAIN == 4
MINOFFSET == 1
MAXOFFSET == 512

\* EXPOSURE_THRESHOLD = 1.0 s = 2^6 * 5^6 us
EXPOSURE_THRESHOLD == <<6, 6, 0, 0>>
\* MINEXP = 0.000001 s = 1 us
MINEXP == <<0, 0, 0, 0>>
\* MAXEXP = 8 s = 2^9 * 5^6 us
MAXEXP == <<9, 6, 0, 0>>

\* ---------------------------------------------------------------- bounds

\* Exposures a camera takes over all runs; a further run of CCDauto is only
\* started while a full budget of MAXTRY exposures is left.
MaxFrames == 16
\* Runs of CCDauto against one camera.
MaxRuns == 3

\* --------------------------------------------------- exposure arithmetic

\* 10^6 * ln of the rational, in microseconds.  The integer logarithms
\* 693147, 1609438, 1945910 order 2^x * 5^y * 7^z against 1 correctly for
\* all |x|, |z| <= 45 and y + z in {-6, 0, 6}, and give 0 only for 1.
LogMicro(e) == e[1] * 693147 + e[2] * 1609438 + e[3] * 1945910

Sign(n) == IF n < 0 THEN -1 ELSE IF n > 0 THEN 1 ELSE 0

\* The float comparison x ? y as -1 (x < y), 0 (x = y), 1 (x > y).
Cmp(x, y) ==
    IF LogMicro(x) # LogMicro(y)
    THEN Sign(LogMicro(x) - LogMicro(y))
    ELSE Sign(x[4] - y[4])

ExpLE(x, y) == Cmp(x, y) <= 0
ExpGE(x, y) == Cmp(x, y) >= 0
ExpLT(x, y) == Cmp(x, y) < 0
ExpGT(x, y) == Cmp(x, y) > 0

\* The float results a rounded operation can give for the rational t.
Rounded(t) ==
    IF t[3] = 0
    THEN {<<t[1], t[2], t[3], s>> : s \in {-1, 0, 1}}
    ELSE {<<t[1], t[2], t[3], 0>>}

\* exposure / 2 and exposure * 2: exact.
Half(e) == <<e[1] - 1, e[2], e[3], e[4]>>
Twice(e) == <<e[1] + 1, e[2], e[3], e[4]>>
\* exposure / 1.4 and exposure * 1.4: rounded.
DivDamped(e) == Rounded(<<e[1], e[2] + 1, e[3] - 1, 0>>)
MulDamped(e) == Rounded(<<e[1], e[2] - 1, e[3] + 1, 0>>)

\* ------------------------------------------------------ decision helpers

\* low = MEANADU - DEVADU, high = MEANADU + DEVADU
low == MEANADU - DEVADU
high == MEANADU + DEVADU

\* if mean >= high: exposure too bright
TooBright(m) == m >= high
\* Mutant: a mean equal to low passes as converged.
TooDarkStrict(m) == m < low

\* elif mean <= low: exposure too dark
TooDark(m) == m <= low

\* Mutant: the gain is lowered right after it was raised.
PreferGainDecAfterInc(exposure, gain, gain_inc) ==
    ExpLE(exposure, EXPOSURE_THRESHOLD) /\ gain > MINGAIN

\* Mutant: the gain is lowered even at MINGAIN.
PreferGainDecAtFloor(exposure, gain, gain_inc) ==
    ExpLE(exposure, EXPOSURE_THRESHOLD) /\ ~gain_inc

\* current_exposure <= EXPOSURE_THRESHOLD and current_gain > MINGAIN
\* and not last_gain_inc
PreferGainDec(exposure, gain, gain_inc) ==
    ExpLE(exposure, EXPOSURE_THRESHOLD) /\ gain > MINGAIN /\ ~gain_inc

\* Mutant: the gain is raised right after it was lowered.
PreferGainIncAfterDec(exposure, gain, gain_dec) ==
    ExpGE(exposure, EXPOSURE_THRESHOLD) /\ gain < MAXGAIN

\* current_exposure >= EXPOSURE_THRESHOLD and current_gain < MAXGAIN
\* and not last_gain_dec
PreferGainInc(exposure, gain, gain_dec) ==
    ExpGE(exposure, EXPOSURE_THRESHOLD) /\ gain < MAXGAIN /\ ~gain_dec

\* Mutant: the gain step goes the wrong way.
LowerGainWrongWay(gain) ==
    IF gain + STEPGAIN > MAXGAIN THEN MAXGAIN ELSE gain + STEPGAIN

\* current_gain -= STEPGAIN; if current_gain < MINGAIN: current_gain = MINGAIN
LowerGain(gain) == IF gain - STEPGAIN < MINGAIN THEN MINGAIN ELSE gain - STEPGAIN

\* current_gain += STEPGAIN; if current_gain > MAXGAIN: current_gain = MAXGAIN
RaiseGain(gain) == IF gain + STEPGAIN > MAXGAIN THEN MAXGAIN ELSE gain + STEPGAIN

\* Mutant: MINEXP itself is not taken for the bound.
AtMinExpStrict(exposure) == ExpLT(exposure, MINEXP)

\* if current_exposure <= MINEXP: ... break
AtMinExp(exposure) == ExpLE(exposure, MINEXP)
\* if current_exposure >= MAXEXP: ... break
AtMaxExp(exposure) == ExpGE(exposure, MAXEXP)

\* if new_exp < MINEXP: new_exp = MINEXP
ClampMin(new_exp) == IF ExpLT(new_exp, MINEXP) THEN MINEXP ELSE new_exp
\* Mutant: the upper clamp is missing.
ClampMaxMissing(new_exp) == new_exp

\* if new_exp > MAXEXP: new_exp = MAXEXP
ClampMax(new_exp) == IF ExpGT(new_exp, MAXEXP) THEN MAXEXP ELSE new_exp

\* new_exp = current_exposure / (1.4 if last_exp_inc else 2), clamped:
\* the set of float results.
ShorterExposures(exposure, exp_inc) ==
    {ClampMin(n) : n \in (IF exp_inc THEN DivDamped(exposure) ELSE {Half(exposure)})}

\* Mutant: an increase is never damped.
LongerExposuresUndamped(exposure, exp_dec) == {ClampMax(Twice(exposure))}

\* new_exp = current_exposure * (1.4 if last_exp_dec else 2), clamped:
\* the set of float results.
LongerExposures(exposure, exp_dec) ==
    {ClampMax(n) : n \in (IF exp_dec THEN MulDamped(exposure) ELSE {Twice(exposure)})}

\* ------------------------------------------------------------------ state

VARIABLES
    pc,                 \* position of the control thread (main)
    raised,             \* the exception that ended the control thread
    options,            \* class Options: gain, offset, binning, exposure
    device,             \* the camera the session talks to (see Measure)
    devicePresent,      \* the INDI server has announced the camera
    current_gain,       \* self.current_gain
    current_offset,     \* self.current_offset
    current_binning,    \* self.current_binning
    current_exposure,   \* self.current_exposure
    count,              \* CCDauto: attempts left
    last_exp_inc,       \* CCDauto: direction flags
    last_exp_dec,
    last_gain_inc,
    last_gain_dec,
    last_exp,           \* CCDauto: exposure of the capture in progress
    mean,               \* CCDauto: np.average(img)
    img,                \* CCDauto: the frame CCDgetImg returned
    blobEvent,          \* the global threading.Event
    ccd,                \* the camera: its properties and exposures under way
    nframes,            \* exposures written in this session
    armed,              \* frame started by the last exposure write
    writes,             \* what the current CCDcapture call has done, in order
    result,             \* what CCDauto last reported and CCDwriteImg captioned
    last_action,        \* history: the adjustment of the previous iteration
    moved,              \* history: the adjustments made so far in this run
    run_first,          \* history: nframes when this run began
    nruns,              \* history: runs of CCDauto begun
    trace,              \* history: the settings this run has captured with
    history             \* history: the finished runs (fixed cameras only)

vars == <<pc, raised, options, device, devicePresent, current_gain, current_offset,
          current_binning, current_exposure, count, last_exp_inc, last_exp_dec,
          last_gain_inc, last_gain_dec, last_exp, mean, img, blobEvent, ccd,
          nframes, armed, writes, result, last_action, moved, run_first, nruns,
          trace, history>>

settings == <<current_gain, current_offset, current_binning, current_exposure>>
flags == <<last_exp_inc, last_exp_dec, last_gain_inc, last_gain_dec>>
locals == <<count, last_exp, mean, img>>
config == <<options, device>>
ghost == <<last_action, moved, run_first, nruns, trace, history>>

\* Placeholders for what does not exist yet.
NoExp == <<-99, 0, 0, 0>>
NoFrame == [id |-> 0, gain |-> 0, offset |-> 0, binning |-> 0, exposure |-> NoExp]
NoResult == [frame |-> NoFrame, gain |-> 0, exposure |-> NoExp, last_exp |-> NoExp,
             mean |-> 0]

\* 0.5 s (the default of Options.exposure) and 0.2 s, in microseconds.
Exp0_5 == <<5, 6, 0, 0>>
Exp0_2 == <<6, 5, 0, 0>>
\* 0.28 s = 2^6 * 5^4 * 7 us
Exp0_28 == <<6, 4, 1, 0>>

\* The command lines the model starts from: the defaults of class Options,
\* both corners of the settings range, and a mid-range start at the
\* gain/exposure threshold.
InitOptions ==
    { [gain |-> MINGAIN, offset |-> MINOFFSET, binning |-> 2, exposure |-> Exp0_5],
      [gain |-> MINGAIN, offset |-> MINOFFSET, binning |-> 1, exposure |-> MINEXP],
      [gain |-> MAXGAIN, offset |-> MAXOFFSET, binning |-> 2, exposure |-> MAXEXP],
      [gain |-> 13, offset |-> 100, binning |-> 1, exposure |-> EXPOSURE_THRESHOLD] }

\* Mean values a frame can have: the band's two ends, its centre, and a
\* saturated frame.
Means == {low, MEANADU, high, 200}

\* The cameras: "free" returns any mean for any frame; "scenario" is the
\* simulated device that returns 200 for exposure >= 0.5 s, 128 for
\* exposure < 0.2 s and anything in between.
\* "bright_gap" is the scenario camera with 200 in the gap as well, "window"
\* is dark below 0.28 s, 128 from there to 0.5 s and 200 from 0.5 s on.
Devices == {"free", "scenario", "bright_gap", "window"}

\* The cameras whose mean is a function of the exposure time.
Fixed(dev) == dev \in {"bright_gap", "window"}

\* mean = np.average(img): the means the camera can deliver for a frame.
Measure(dev, frame) ==
    CASE dev = "scenario" ->
           IF ExpGE(frame.exposure, Exp0_5) THEN {200}
           ELSE IF ExpLT(frame.exposure, Exp0_2) THEN {MEANADU}
           ELSE Means
      [] dev = "bright_gap" ->
           IF ExpGE(frame.exposure, Exp0_2) THEN {200} ELSE {MEANADU}
      [] dev = "window" ->
           IF ExpGE(frame.exposure, Exp0_5) THEN {200}
           ELSE IF ExpGE(frame.exposure, Exp0_28) THEN {MEANADU}
           ELSE {low}
      [] OTHER -> Means

Init ==
    /\ pc = "connect"
    /\ raised = "none"
    /\ options \in InitOptions
    /\ device \in Devices
    /\ devicePresent = FALSE
    /\ current_gain = 0
    /\ current_offset = 0
    /\ current_binning = 0
    /\ current_exposure = NoExp
    /\ count = 0
    /\ last_exp_inc = FALSE
    /\ last_exp_dec = FALSE
    /\ last_gain_inc = FALSE
    /\ last_gain_dec = FALSE
    /\ last_exp = NoExp
    /\ mean = 0
    /\ img = NoFrame
    /\ blobEvent = [created |-> FALSE, flag |-> FALSE, by |-> {}]
    /\ ccd = [gain |-> 0, offset |-> 0, binning |-> 0, blobMode |-> FALSE,
              exposing |-> {}, ccd1 |-> NoFrame]
    /\ nframes = 0
    /\ armed = 0
    /\ writes = <<>>
    /\ result = NoResult
    /\ last_action = "none"
    /\ moved = {}
    /\ run_first = 0
    /\ nruns = 0
    /\ trace = <<>>
    /\ history = {}

\* ------------------------------------------------- the INDI server side

\* newDevice: the server announces the camera.
NewDevice ==
    /\ ~devicePresent
    /\ devicePresent' = TRUE
    /\ UNCHANGED <<pc, config, raised, settings, flags, locals, blobEvent, ccd, nframes,
                   armed, writes, result, ghost>>

\* blobEvent.set()
EventSet(ev, who) == [ev EXCEPT !.flag = TRUE, !.by = ev.by \cup {who}]
\* blobEvent.clear()
EventClear(ev) == [ev EXCEPT !.flag = FALSE, !.by = {}]

\* Mutant: the type of the property is not looked at.
UpdateEventAnyType(ev, kind, who) == EventSet(ev, who)

\* updateProperty(prop), prop of type `kind`, on the event: only a BLOB
\* sets it.  who names the update: a frame id, or 0 for a number.
UpdateEvent(ev, kind, who) == IF kind = "blob" THEN EventSet(ev, who) ELSE ev

\* updateProperty for a numeric property (gain, offset, binning, exposure):
\* the notification thread runs it at any time once the camera is known.
UpdateNumber ==
    /\ devicePresent
    /\ blobEvent' = UpdateEvent(blobEvent, "number", 0)
    /\ UNCHANGED <<pc, config, raised, devicePresent, settings, flags, locals, ccd,
                   nframes, armed, writes, result, ghost>>

\* The camera finishes an exposure: CCD1 holds the frame, and the
\* notification thread runs updateProperty for the BLOB.
UpdateBlob ==
    /\ ccd.blobMode
    /\ blobEvent.created
    /\ \E f \in ccd.exposing :
         /\ ccd' = [ccd EXCEPT !.exposing = @ \ {f}, !.ccd1 = f]
         /\ blobEvent' = UpdateEvent(blobEvent, "blob", f.id)
    /\ UNCHANGED <<pc, config, raised, devicePresent, settings, flags, locals, nframes,
                   armed, writes, result, ghost>>

\* The same with no blobEvent yet: blobEvent.set() raises NameError in the
\* notification thread.  The exception either ends the process or is
\* dropped by the transport; the frame is in CCD1 either way.
UpdateBlobNoEvent ==
    /\ ccd.blobMode
    /\ ~blobEvent.created
    /\ \E f \in ccd.exposing :
         ccd' = [ccd EXCEPT !.exposing = @ \ {f}, !.ccd1 = f]
    /\ \/ raised' = "NameError" /\ pc' = "raised"
       \/ UNCHANGED <<raised, pc>>
    /\ UNCHANGED <<config, devicePresent, settings, flags, locals, blobEvent,
                   nframes, armed, writes, result, ghost>>

\* ---------------------------------------------- control thread: CCDconnect

\* while not (device_ccd := self.getDevice(ccd)): time.sleep(TIMEOUT)
CCDconnectPoll ==
    /\ pc = "connect"
    /\ ~devicePresent
    /\ UNCHANGED vars

\* The camera is there: fetch its properties and take the initial settings
\* from Options.
CCDconnectDevice ==
    /\ pc = "connect"
    /\ devicePresent
    /\ current_binning' = options.binning
    /\ current_gain' = options.gain
    /\ current_offset' = options.offset
    /\ current_exposure' = options.exposure
    /\ pc' = "connect_blobmode"
    /\ UNCHANGED <<config, raised, devicePresent, flags, locals, blobEvent, ccd, nframes,
                   armed, writes, result, ghost>>

\* self.setBLOBMode(PyIndi.B_ALSO, ccd, "CCD1") and the wait for CCD1
CCDconnectBLOBMode ==
    /\ pc = "connect_blobmode"
    /\ ccd' = [ccd EXCEPT !.blobMode = TRUE]
    /\ pc' = "connect_event"
    /\ UNCHANGED <<config, raised, devicePresent, settings, flags, locals, blobEvent,
                   nframes, armed, writes, result, ghost>>

\* blobEvent = threading.Event()
CCDconnectEvent ==
    /\ pc = "connect_event"
    /\ blobEvent' = [created |-> TRUE, flag |-> FALSE, by |-> {}]
    /\ pc' = "auto"
    /\ UNCHANGED <<config, raised, devicePresent, settings, flags, locals, ccd, nframes,
                   armed, writes, result, ghost>>

CCDconnect == CCDconnectPoll \/ CCDconnectDevice \/ CCDconnectBLOBMode \/ CCDconnectEvent

\* ---------------------------------------------- control thread: CCDcapture

\* set gain and offset, set binning
CCDcaptureSettings ==
    /\ pc = "capture"
    /\ ccd' = [ccd EXCEPT !.gain = current_gain, !.offset = current_offset,
                          !.binning = current_binning]
    /\ writes' = <<"gain", "offset", "binning">>
    /\ pc' = "capture_clear"
    /\ UNCHANGED <<config, raised, devicePresent, settings, flags, locals, blobEvent,
                   nframes, armed, result, ghost>>

\* Mutant: the event is not cleared before the exposure is started.
CCDcaptureClearSkipped ==
    /\ pc = "capture_clear"
    /\ pc' = "capture_exposure"
    /\ UNCHANGED <<config, raised, devicePresent, settings, flags, locals, blobEvent,
                   ccd, nframes, armed, writes, result, ghost>>

\* blobEvent.clear()
CCDcaptureClear ==
    /\ pc = "capture_clear"
    /\ blobEvent' = EventClear(blobEvent)
    /\ writes' = Append(writes, "clear")
    /\ pc' = "capture_exposure"
    /\ UNCHANGED <<config, raised, devicePresent, settings, flags, locals, ccd, nframes,
                   armed, result, ghost>>

\* self.ccd_exposure[0].setValue(self.current_exposure); sendNewProperty:
\* the camera starts an exposure with the settings it holds.
CCDcaptureExposure ==
    /\ pc = "capture_exposure"
    /\ nframes' = nframes + 1
    /\ armed' = nframes + 1
    /\ ccd' = [ccd EXCEPT !.exposing = @ \cup
                 {[id |-> nframes + 1, gain |-> ccd.gain, offset |-> ccd.offset,
                   binning |-> ccd.binning, exposure |-> current_exposure]}]
    /\ writes' = Append(writes, "exposure")
    /\ trace' = IF Fixed(device)
                THEN Append(trace, <<ccd.gain, ccd.offset, ccd.binning, current_exposure>>)
                ELSE trace
    /\ pc' = "getimg"
    /\ UNCHANGED <<config, raised, devicePresent, settings, flags, locals, blobEvent,
                   result, last_action, moved, run_first, nruns, history>>

CCDcapture == CCDcaptureSettings \/ CCDcaptureClear \/ CCDcaptureExposure

\* ----------------------------------------------- control thread: CCDgetImg

\* Mutant: CCDgetImg does not wait for the event.
CCDgetImgNoWait ==
    /\ pc = "getimg"
    /\ pc' = "getimg_read"
    /\ UNCHANGED <<config, raised, devicePresent, settings, flags, locals, blobEvent,
                   ccd, nframes, armed, writes, result, ghost>>

\* blobEvent.wait()
CCDgetImgWait ==
    /\ pc = "getimg"
    /\ blobEvent.flag
    /\ pc' = "getimg_read"
    /\ UNCHANGED <<config, raised, devicePresent, settings, flags, locals, blobEvent, ccd,
                   nframes, armed, writes, result, ghost>>

\* After the settle delay: decode CCD1 and return it; then, back in CCDauto,
\* mean = np.average(img).
CCDgetImgRead ==
    /\ pc = "getimg_read"
    /\ img' = ccd.ccd1
    /\ mean' \in Measure(device, ccd.ccd1)
    /\ pc' = "evaluate"
    /\ UNCHANGED <<config, raised, devicePresent, settings, flags, count, last_exp,
                   blobEvent, ccd, nframes, armed, writes, result, ghost>>

CCDgetImg == CCDgetImgWait \/ CCDgetImgRead

\* Mutant: the decoding error is swallowed and the loop goes on.
CCDgetImgDecodeErrorRetried ==
    /\ pc = "getimg_read"
    /\ raised' = "DecodeError"
    /\ pc' = "while"
    /\ UNCHANGED <<config, devicePresent, settings, flags, locals, blobEvent, ccd,
                   nframes, armed, writes, result, ghost>>

\* fits.HDUList.fromstring(bytes(fitsdata)) cannot parse the payload: the
\* exception leaves CCDgetImg and CCDauto, which have no handler, and main,
\* which only catches KeyboardInterrupt.
CCDgetImgDecodeError ==
    /\ pc = "getimg_read"
    /\ raised' = "DecodeError"
    /\ pc' = "raised"
    /\ UNCHANGED <<config, devicePresent, settings, flags, locals, blobEvent, ccd,
                   nframes, armed, writes, result, ghost>>

\* ------------------------------------ calls on a session not yet connected

\* main calls indi.CCDcapture() before indi.CCDconnect(): self.ccd_gain does
\* not exist, the first statement raises AttributeError.
CCDcaptureEarly ==
    /\ pc = "connect"
    /\ raised' = "AttributeError"
    /\ pc' = "raised"
    /\ UNCHANGED <<config, devicePresent, settings, flags, locals, blobEvent, ccd,
                   nframes, armed, writes, result, ghost>>

\* main calls indi.CCDgetImg() before indi.CCDconnect(): the global blobEvent
\* is not defined, blobEvent.wait() raises NameError.
CCDgetImgEarly ==
    /\ pc = "connect"
    /\ ~blobEvent.created
    /\ raised' = "NameError"
    /\ pc' = "raised"
    /\ UNCHANGED <<config, devicePresent, settings, flags, locals, blobEvent, ccd,
                   nframes, armed, writes, result, ghost>>

\* ------------------------------------------------- control thread: CCDauto

\* History of an adjusting iteration: what it did.
Did(action) ==
    /\ last_action' = action
    /\ moved' = moved \cup {action}
    /\ UNCHANGED <<run_first, nruns, trace, history>>

\* Mutant: the direction flags of the run before are kept.
CCDautoStartStaleFlags ==
    /\ pc = "auto"
    /\ count' = MAXTRY
    /\ img' = NoFrame
    /\ last_exp' = NoExp
    /\ last_action' = "none"
    /\ moved' = {}
    /\ run_first' = nframes
    /\ nruns' = nruns + 1
    /\ trace' = <<>>
    /\ pc' = "while"
    /\ UNCHANGED <<config, raised, devicePresent, settings, flags, mean, blobEvent, ccd,
                   nframes, armed, writes, result, history>>

\* count = MAXTRY ... last_exp = 0: the locals of a new run.
CCDautoStart ==
    /\ pc = "auto"
    /\ count' = MAXTRY
    /\ img' = NoFrame
    /\ last_exp_inc' = FALSE
    /\ last_exp_dec' = FALSE
    /\ last_gain_inc' = FALSE
    /\ last_gain_dec' = FALSE
    /\ last_exp' = NoExp
    /\ last_action' = "none"
    /\ moved' = {}
    /\ run_first' = nframes
    /\ nruns' = nruns + 1
    /\ trace' = <<>>
    /\ pc' = "while"
    /\ UNCHANGED <<config, raised, devicePresent, settings, mean, blobEvent, ccd, nframes,
                   armed, writes, result, history>>

\* Mutant: the attempt is not counted.
CCDautoIterateUncounted ==
    /\ pc = "while"
    /\ count > 0
    /\ last_exp' = current_exposure
    /\ pc' = "capture"
    /\ UNCHANGED <<config, raised, devicePresent, settings, flags, count, mean, img,
                   blobEvent, ccd, nframes, armed, writes, result, ghost>>

\* while count > 0: count -= 1; last_exp = self.current_exposure;
\* self.CCDcapture() ...
CCDautoIterate ==
    /\ pc = "while"
    /\ count > 0
    /\ count' = count - 1
    /\ last_exp' = current_exposure
    /\ pc' = "capture"
    /\ UNCHANGED <<config, raised, devicePresent, settings, flags, mean, img, blobEvent,
                   ccd, nframes, armed, writes, result, ghost>>

\* while count > 0 fails: the budget is used up.
CCDautoExhausted ==
    /\ pc = "while"
    /\ count = 0
    /\ pc' = "finish"
    /\ UNCHANGED <<config, raised, devicePresent, settings, flags, locals, blobEvent, ccd,
                   nframes, armed, writes, result, ghost>>

\* too bright: decrease gain
CCDautoGainDec ==
    /\ pc = "evaluate"
    /\ TooBright(mean)
    /\ PreferGainDec(current_exposure, current_gain, last_gain_inc)
    /\ current_gain' = LowerGain(current_gain)
    /\ last_gain_dec' = TRUE
    /\ Did("gain_dec")
    /\ pc' = "while"
    /\ UNCHANGED <<config, raised, devicePresent, current_offset, current_binning,
                   current_exposure, last_exp_inc, last_exp_dec, last_gain_inc,
                   locals, blobEvent, ccd, nframes, armed, writes, result>>

\* too bright, already at MINEXP: break
CCDautoMinStop ==
    /\ pc = "evaluate"
    /\ TooBright(mean)
    /\ ~PreferGainDec(current_exposure, current_gain, last_gain_inc)
    /\ AtMinExp(current_exposure)
    /\ current_exposure' = MINEXP
    /\ pc' = "finish"
    /\ UNCHANGED <<config, raised, devicePresent, current_gain, current_offset,
                   current_binning, flags, locals, blobEvent, ccd, nframes, armed,
                   writes, result, ghost>>

\* too bright: decrease exposure time
CCDautoExpDec ==
    /\ pc = "evaluate"
    /\ TooBright(mean)
    /\ ~PreferGainDec(current_exposure, current_gain, last_gain_inc)
    /\ ~AtMinExp(current_exposure)
    /\ current_exposure' \in ShorterExposures(current_exposure, last_exp_inc)
    /\ last_exp_dec' = TRUE
    /\ last_gain_dec' = FALSE
    /\ Did("exp_dec")
    /\ pc' = "while"
    /\ UNCHANGED <<config, raised, devicePresent, current_gain, current_offset,
                   current_binning, last_exp_inc, last_gain_inc, locals, blobEvent,
                   ccd, nframes, armed, writes, result>>

\* too dark: increase gain
CCDautoGainInc ==
    /\ pc = "evaluate"
    /\ ~TooBright(mean)
    /\ TooDark(mean)
    /\ PreferGainInc(current_exposure, current_gain, last_gain_dec)
    /\ current_gain' = RaiseGain(current_gain)
    /\ last_gain_inc' = TRUE
    /\ Did("gain_inc")
    /\ pc' = "while"
    /\ UNCHANGED <<config, raised, devicePresent, current_offset, current_binning,
                   current_exposure, last_exp_inc, last_exp_dec, last_gain_dec,
                   locals, blobEvent, ccd, nframes, armed, writes, result>>

\* too dark, already at MAXEXP: break
CCDautoMaxStop ==
    /\ pc = "evaluate"
    /\ ~TooBright(mean)
    /\ TooDark(mean)
    /\ ~PreferGainInc(current_exposure, current_gain, last_gain_dec)
    /\ AtMaxExp(current_exposure)
    /\ current_exposure' = MAXEXP
    /\ pc' = "finish"
    /\ UNCHANGED <<config, raised, devicePresent, current_gain, current_offset,
                   current_binning, flags, locals, blobEvent, ccd, nframes, armed,
                   writes, result, ghost>>

\* too dark: increase exposure time
CCDautoExpInc ==
    /\ pc = "evaluate"
    /\ ~TooBright(mean)
    /\ TooDark(mean)
    /\ ~PreferGainInc(current_exposure, current_gain, last_gain_dec)
    /\ ~AtMaxExp(current_exposure)
    /\ current_exposure' \in LongerExposures(current_exposure, last_exp_dec)
    /\ last_gain_inc' = FALSE
    /\ last_exp_inc' = TRUE
    /\ Did("exp_inc")
    /\ pc' = "while"
    /\ UNCHANGED <<config, raised, devicePresent, current_gain, current_offset,
                   current_binning, last_exp_dec, last_gain_dec, locals, blobEvent,
                   ccd, nframes, armed, writes, result>>

\* exposure ok: break
CCDautoOk ==
    /\ pc = "evaluate"
    /\ ~TooBright(mean)
    /\ ~TooDark(mean)
    /\ pc' = "finish"
    /\ UNCHANGED <<config, raised, devicePresent, settings, flags, locals, blobEvent, ccd,
                   nframes, armed, writes, result, ghost>>

\* verbose(f"auto-exposure {last_exp:.3g}s gain={self.current_gain} ...");
\* self.CCDwriteImg(img), whose caption is current_exposure and current_gain.
CCDautoFinish ==
    /\ pc = "finish"
    /\ result' = [frame |-> img, gain |-> current_gain,
                  exposure |-> current_exposure, last_exp |-> last_exp,
                  mean |-> mean]
    /\ history' = IF Fixed(device)
                  THEN history \cup {[trace |-> trace, gain |-> current_gain,
                                      exposure |-> current_exposure,
                                      iterations |-> nframes - run_first]}
                  ELSE history
    /\ pc' = "main"
    /\ UNCHANGED <<config, raised, devicePresent, settings, flags, locals, blobEvent, ccd,
                   nframes, armed, writes, last_action, moved, run_first, nruns,
                   trace>>

CCDauto ==
    \/ CCDautoStart \/ CCDautoIterate \/ CCDautoExhausted
    \/ CCDautoGainDec \/ CCDautoMinStop \/ CCDautoExpDec
    \/ CCDautoGainInc \/ CCDautoMaxStop \/ CCDautoExpInc
    \/ CCDautoOk \/ CCDautoFinish

\* -------------------------------------------------- control thread: main

\* A further run is modelled while the camera has seen fewer than MaxRuns
\* runs and, unless its mean is a function of the exposure time, has a full
\* budget of exposures left.
MayStartRun ==
    /\ nruns < MaxRuns
    /\ ~Fixed(device) => nframes + MAXTRY <= MaxFrames

\* Mutant: the next run starts over from the options.
MainLoopReset ==
    /\ pc = "main"
    /\ MayStartRun
    /\ current_gain' = options.gain
    /\ current_offset' = options.offset
    /\ current_binning' = options.binning
    /\ current_exposure' = options.exposure
    /\ pc' = "auto"
    /\ UNCHANGED <<config, raised, devicePresent, flags, locals, blobEvent, ccd,
                   nframes, armed, writes, result, ghost>>

\* if args.loop: while True: indi.CCDauto(); sleep -- the next run.
MainLoop ==
    /\ pc = "main"
    /\ MayStartRun
    /\ pc' = "auto"
    /\ UNCHANGED <<config, raised, devicePresent, settings, flags, locals, blobEvent, ccd,
                   nframes, armed, writes, result, ghost>>

\* No loop option, or the loop is interrupted between two runs:
\* indi.disconnectServer()
MainDisconnect ==
    /\ pc = "main"
    /\ pc' = "done"
    /\ UNCHANGED <<config, raised, devicePresent, settings, flags, locals, blobEvent, ccd,
                   nframes, armed, writes, result, ghost>>

\* The program is run again with the same options against the same camera:
\* a new process, whose session has no event and no settings yet.
MainAgain ==
    /\ pc = "done"
    /\ MayStartRun
    /\ pc' = "connect"
    /\ blobEvent' = [created |-> FALSE, flag |-> FALSE, by |-> {}]
    /\ ccd' = [ccd EXCEPT !.blobMode = FALSE]
    /\ current_gain' = 0
    /\ current_offset' = 0
    /\ current_binning' = 0
    /\ current_exposure' = NoExp
    /\ UNCHANGED <<config, raised, devicePresent, flags, locals, nframes, armed, writes,
                   result, ghost>>

Main == MainLoop \/ MainDisconnect \/ MainAgain

Control == CCDconnect \/ CCDcapture \/ CCDgetImg \/ CCDauto \/ Main
Notify == NewDevice \/ UpdateNumber \/ UpdateBlob

Next == Control \/ Notify

Spec == Init /\ [][Next]_vars

\* The control thread keeps running, and the camera answers every exposure
\* write with its image notification.
FairSpec == Spec /\ WF_vars(Control) /\ WF_vars(UpdateBlob)

\* The program with its failures: a payload that cannot be decoded, and a
\* main that calls CCDcapture or CCDgetImg without CCDconnect.
Early == CCDcaptureEarly \/ CCDgetImgEarly
FaultNext == Next \/ CCDgetImgDecodeError \/ Early

FaultSpec == Init /\ [][FaultNext]_vars

\* ------------------------------------- a camera that is already exposing

\* A frame the camera is exposing for someone else when the session begins:
\* another client of the INDI server, or a run of the program that was ended
\* in its wait.
StaleFrame == [id |-> -1, gain |-> MINGAIN, offset |-> MINOFFSET, binning |-> 1,
               exposure |-> Exp0_5]

\* ------------------------------------------ qhy5-capture.py: one exposure

\* main of qhy5-capture.py begins; the camera is idle or exposing a frame
\* of someone else.
CaptureInit ==
    /\ pc = "cap_connect"
    /\ raised = "none"
    /\ options \in InitOptions
    /\ device \in Devices
    /\ devicePresent = FALSE
    /\ current_gain = 0
    /\ current_offset = 0
    /\ current_binning = 0
    /\ current_exposure = NoExp
    /\ count = 0
    /\ last_exp_inc = FALSE
    /\ last_exp_dec = FALSE
    /\ last_gain_inc = FALSE
    /\ last_gain_dec = FALSE
    /\ last_exp = NoExp
    /\ mean = 0
    /\ img = NoFrame
    /\ blobEvent = [created |-> FALSE, flag |-> FALSE, by |-> {}]
    /\ \E busy \in SUBSET {StaleFrame} :
         ccd = [gain |-> 0, offset |-> 0, binning |-> 0, blobMode |-> FALSE,
                exposing |-> busy, ccd1 |-> NoFrame]
    /\ nframes = 0
    /\ armed = 0
    /\ writes = <<>>
    /\ result = NoResult
    /\ last_action = "none"
    /\ moved = {}
    /\ run_first = 0
    /\ nruns = 0
    /\ trace = <<>>
    /\ history = {}

\* while not (device_ccd := self.getDevice(ccd)): time.sleep(TIMEOUT)
CapCCDconnectPoll ==
    /\ pc = "cap_connect"
    /\ ~devicePresent
    /\ UNCHANGED vars

\* The camera is there: fetch its properties.
CapCCDconnectDevice ==
    /\ pc = "cap_connect"
    /\ devicePresent
    /\ pc' = "cap_connect_blobmode"
    /\ UNCHANGED <<config, raised, devicePresent, settings, flags, locals, blobEvent,
                   ccd, nframes, armed, writes, result, ghost>>

\* self.setBLOBMode(PyIndi.B_ALSO, ccd, "CCD1") and the wait for CCD1
CapCCDconnectBLOBMode ==
    /\ pc = "cap_connect_blobmode"
    /\ ccd' = [ccd EXCEPT !.blobMode = TRUE]
    /\ pc' = "cap_connect_event"
    /\ UNCHANGED <<config, raised, devicePresent, settings, flags, locals, blobEvent,
                   nframes, armed, writes, result, ghost>>

\* blobEvent = threading.Event(); blobEvent.clear()
CapCCDconnectEvent ==
    /\ pc = "cap_connect_event"
    /\ blobEvent' = EventClear([created |-> TRUE, flag |-> FALSE, by |-> {}])
    /\ pc' = "cap_capture"
    /\ UNCHANGED <<config, raised, devicePresent, settings, flags, locals, ccd,
                   nframes, armed, writes, result, ghost>>

CapCCDconnect ==
    \/ CapCCDconnectPoll \/ CapCCDconnectDevice
    \/ CapCCDconnectBLOBMode \/ CapCCDconnectEvent

\* CCDcapture(Options.gain, Options.offset, Options.binning,
\* Options.exposure): set gain and offset, set binning
CapCCDcaptureSettings ==
    /\ pc = "cap_capture"
    /\ ccd' = [ccd EXCEPT !.gain = options.gain, !.offset = options.offset,
                          !.binning = options.binning]
    /\ writes' = <<"gain", "offset", "binning">>
    /\ pc' = "cap_capture_exposure"
    /\ UNCHANGED <<config, raised, devicePresent, settings, flags, locals, blobEvent,
                   nframes, armed, result, ghost>>
\* start exposure: self.ccd_exposure[0].setValue(exp); sendNewProperty.
\* There is no blobEvent.clear() before it.
CapCCDcaptureExposure ==
    /\ pc = "cap_capture_exposure"
    /\ nframes' = nframes + 1
    /\ armed' = nframes + 1
    /\ ccd' = [ccd EXCEPT !.exposing = @ \cup
                 {[id |-> nframes + 1, gain |-> ccd.gain, offset |-> ccd.offset,
                   binning |-> ccd.binning, exposure |-> options.exposure]}]
    /\ writes' = Append(writes, "exposure")
    /\ pc' = "cap_process"
    /\ UNCHANGED <<config, raised, devicePresent, settings, flags, locals, blobEvent,
                   result, ghost>>

CapCCDcapture == CapCCDcaptureSettings \/ CapCCDcaptureExposure

\* CCDprocessData: blobEvent.wait()
CapCCDprocessDataWait ==
    /\ pc = "cap_process"
    /\ blobEvent.flag
    /\ pc' = "cap_process_read"
    /\ UNCHANGED <<config, raised, devicePresent, settings, flags, locals, blobEvent,
                   ccd, nframes, armed, writes, result, ghost>>

\* After the settle delay: decode CCD1, mean = np.average(imgdata), write
\* blob.jpg.
CapCCDprocessDataRead ==
    /\ pc = "cap_process_read"
    /\ img' = ccd.ccd1
    /\ mean' \in Measure(device, ccd.ccd1)
    /\ pc' = "cap_main"
    /\ UNCHANGED <<config, raised, devicePresent, settings, flags, count, last_exp,
                   blobEvent, ccd, nframes, armed, writes, result, ghost>>

CapCCDprocessData == CapCCDprocessDataWait \/ CapCCDprocessDataRead

\* indi.disconnectServer()
CapMainDisconnect ==
    /\ pc = "cap_main"
    /\ pc' = "cap_done"
    /\ UNCHANGED <<config, raised, devicePresent, settings, flags, locals, blobEvent,
                   ccd, nframes, armed, writes, result, ghost>>

CapControl ==
    CapCCDconnect \/ CapCCDcapture \/ CapCCDprocessData \/ CapMainDisconnect
CapNotify == NewDevice \/ UpdateNumber \/ UpdateBlob \/ UpdateBlobNoEvent

CaptureNext == CapControl \/ CapNotify

CaptureSpec == CaptureInit /\ [][CaptureNext]_vars

\* ------------------------------------------------------------ properties

\* The control thread is inside CCDauto or past it.
Connected ==
    /\ pc \notin {"connect", "connect_blobmode", "connect_event"}
    /\ blobEvent.created

\* Captures of the run in progress (or just finished).
Captures == nframes - run_first

\* A step of the control thread that leaves the evaluation of a frame.
Evaluated == pc = "evaluate" /\ pc' # "evaluate"

\* C1: in a run started with gain in [MINGAIN, MAXGAIN] and exposure in
\* [MINEXP, MAXEXP], gain and exposure are within these bounds after every
\* iteration, whatever the means measured.
C1_SettingsInBounds ==
    Connected =>
        /\ MINGAIN <= current_gain /\ current_gain <= MAXGAIN
        /\ ExpGE(current_exposure, MINEXP) /\ ExpLE(current_exposure, MAXEXP)

\* C1 witness: an iteration has doubled the exposure into the upper clamp.
C1_Witness ==
    /\ pc = "while"
    /\ last_action = "exp_inc"
    /\ current_exposure = MAXEXP
    /\ ExpGT(Twice(last_exp), MAXEXP)

\* C2: a mean strictly between low and high stops the loop at that
\* iteration, with no further capture and with gain, offset, binning and
\* exposure as the frame was captured; a mean equal to low or to high is
\* not a converged one: it adjusts, or stops only at an exposure bound.
C2_ConvergedStops ==
    [][ /\ (Evaluated /\ low < mean /\ mean < high) =>
             /\ pc' = "finish"
             /\ settings' = settings
             /\ settings = <<img.gain, img.offset, img.binning, img.exposure>>
             /\ nframes' = nframes
        /\ (Evaluated /\ mean = high) =>
             (pc' = "while" \/ (pc' = "finish" /\ AtMinExp(current_exposure)))
        /\ (Evaluated /\ mean = low) =>
             (pc' = "while" \/ (pc' = "finish" /\ AtMaxExp(current_exposure)))
        /\ pc = "finish" => (nframes' = nframes /\ settings' = settings)
      ]_vars

\* C2 witness: a run has converged after at least two adjustments.
C2_Witness ==
    /\ pc = "finish"
    /\ low < mean /\ mean < high
    /\ Captures >= 3
    /\ settings = <<img.gain, img.offset, img.binning, img.exposure>>

\* C3: the wait of an iteration returns only on the image notification of
\* the exposure that iteration wrote: not on an earlier frame's, and not on
\* the update of a numeric property.
C3_WaitOwnFrame ==
    pc = "getimg_read" =>
        /\ armed = nframes
        /\ blobEvent.by = {armed}
        /\ ccd.ccd1.id = armed

\* C3 witness: the wait of a later iteration has returned.
C3_Witness ==
    /\ pc = "getimg_read"
    /\ Captures >= 2
    /\ blobEvent.by = {armed}

\* C4: however a run ends, the frame handed to CCDwriteImg is the last one
\* captured, and the gain and exposure of the caption are those written to
\* the camera for that frame.
C4_ResultIsLastFrame ==
    pc \in {"main", "done"} =>
        /\ result.frame.id = nframes
        /\ result.gain = result.frame.gain
        /\ result.exposure = result.frame.exposure

\* C5: a run captures at least once and at most MAXTRY times, ends with a
\* frame in its result, and, the camera answering every exposure write,
\* does end.
C5_RunTerminates ==
    /\ [](Connected => Captures <= MAXTRY)
    /\ [](pc \in {"finish", "main"} =>
            (Captures >= 1 /\ img.id = nframes /\ img # NoFrame))
    /\ [](pc = "main" => result.frame = img)
    /\ (pc = "auto") ~> (pc = "main")

\* C5 witness: a run has ended with its budget used up.
C5_Witness ==
    /\ pc = "main"
    /\ Captures = MAXTRY
    /\ result.frame.id = nframes

\* An iteration that increases the exposure time.
ExpIncStep == Evaluated /\ last_action' = "exp_inc" /\ pc' = "while"

\* The results of an increase by 1.4 and by 2.
IncreasedBy14(e) == {ClampMax(n) : n \in MulDamped(e)}
IncreasedBy2(e) == ClampMax(Twice(e))

C7_GainPreferred ==
    [][ ( /\ Evaluated
          /\ ExpLE(current_exposure, EXPOSURE_THRESHOLD)
          /\ mean >= high
          /\ current_gain > MINGAIN
          /\ last_action # "gain_inc" ) =>
          /\ current_gain' < current_gain
          /\ current_exposure' = current_exposure
      ]_vars

\* C8: a run that starts at MINEXP and MINGAIN and reads a too bright first
\* frame ends on that iteration: one capture, settings as they were.
C8_StopsAtFloor ==
    [][ ( /\ Evaluated
          /\ Captures = 1
          /\ img.exposure = MINEXP /\ img.gain = MINGAIN
          /\ mean >= high ) =>
          /\ pc' = "finish"
          /\ current_exposure' = MINEXP /\ current_gain' = MINGAIN
          /\ nframes' = nframes
      ]_vars

\* C8 witness: such a run has ended after its one capture.
C8_Witness ==
    /\ pc = "main"
    /\ Captures = 1
    /\ result.frame.exposure = MINEXP /\ result.frame.gain = MINGAIN
    /\ result.mean >= high
    /\ result.exposure = MINEXP /\ result.gain = MINGAIN

\* The first run of a session started with the defaults of class Options:
\* exposure 0.5 s, gain 1, offset 1, binning 2.
DefaultRun ==
    /\ options = [gain |-> 1, offset |-> 1, binning |-> 2, exposure |-> Exp0_5]
    /\ nruns = 1

\* The run has converged within 5 iterations to an exposure in
\* [MINEXP, 0.2 s) with gain 1.
ConvergedBelowGap ==
    /\ low < mean /\ mean < high
    /\ Captures <= 5
    /\ ExpGE(current_exposure, MINEXP) /\ ExpLT(current_exposure, Exp0_2)
    /\ current_gain = 1

\* C9 as stated: against the camera that returns 200 from 0.5 s on, 128
\* below 0.2 s and anything in between, the default run converges within 5
\* iterations to an exposure in [MINEXP, 0.2 s) with gain 1.
C9_ScenarioConverges ==
    (device = "scenario" /\ DefaultRun /\ pc = "finish") => ConvergedBelowGap

\* C9 amended: it does so against the camera that returns 200 between 0.2 s
\* and 0.5 s as well.
C9_BrightGapConverges ==
    (device = "bright_gap" /\ DefaultRun /\ pc = "finish") => ConvergedBelowGap

\* C9 witness: that run has ended, at 0.125 s after three captures.
C9_Witness ==
    /\ device = "bright_gap" /\ DefaultRun /\ pc = "finish"
    /\ Captures = 3
    /\ current_exposure = <<3, 6, 0, 0>>
    /\ img.exposure = current_exposure

\* C10: against a camera whose mean is a function of the settings, two runs
\* that start with the same gain, offset, binning and exposure capture with
\* the same sequence of settings and end with the same gain, exposure and
\* number of iterations.
C10_SameStartSameRun ==
    \A r1, r2 \in history : r1.trace[1] = r2.trace[1] => r1 = r2

\* C10 witness: two runs of three or more iterations from the same settings
\* have ended, and ended alike.
C10_Witness ==
    /\ pc = "main"
    /\ nruns = 2
    /\ Cardinality(history) = 1
    /\ \A r \in history : r.iterations >= 3 /\ r.trace[1][4] = options.exposure

\* What a call of CCDcapture does, in order.
CaptureOrder == <<"gain", "offset", "binning", "clear", "exposure">>

\* C11: a call of CCDcapture writes gain, offset, binning and exposure in
\* this order and clears the event after the binning write and before the
\* exposure write, which is the last write of the call.
C11_CaptureOrder ==
    /\ \E n \in 0..Len(CaptureOrder) : writes = SubSeq(CaptureOrder, 1, n)
    /\ pc = "capture_clear" => writes = SubSeq(CaptureOrder, 1, 3)
    /\ pc = "capture_exposure" => writes = SubSeq(CaptureOrder, 1, 4)
    /\ pc \in {"getimg", "getimg_read", "evaluate"} => writes = CaptureOrder

\* C11 witness: the second call of a run has written its exposure.
C11_Witness ==
    /\ pc = "getimg"
    /\ Captures >= 2
    /\ writes = CaptureOrder

\* C12 as stated: a call of CCDcapture or CCDgetImg on a session that is not
\* connected fails with NotConnected, writes nothing to the camera and does
\* not block.
C12_NotConnectedError ==
    [][ (raised = "none" /\ raised' # "none" /\ ~blobEvent.created) =>
          /\ raised' = "NotConnected"
          /\ pc' = "raised"
          /\ UNCHANGED <<ccd, writes, nframes>>
      ]_vars

\* C13 as stated: CCDconnect always ends; when the camera never appears it
\* gives up polling (and fails with DeviceNotFound).
C13_ConnectEnds == (pc = "connect") ~> (pc # "connect")

\* C14: an error in an iteration of CCDauto ends the run and reaches the
\* caller: from then on the control thread writes no property, starts no
\* exposure, changes no setting and reports no result, whatever budget the
\* run had left.
C14_ErrorAborts ==
    [][ raised # "none" =>
          /\ pc = "raised"
          /\ UNCHANGED <<pc, raised, settings, locals, nframes, armed, writes, result>>
          /\ ccd'.gain = ccd.gain
          /\ ccd'.offset = ccd.offset
          /\ ccd'.binning = ccd.binning
      ]_vars

\* C14 witness: the second frame of a run could not be decoded, with
\* attempts left.
C14_Witness ==
    /\ pc = "raised"
    /\ raised = "DecodeError"
    /\ Captures = 2
    /\ count = MAXTRY - 2
    /\ result.frame.id # nframes

\* An iteration that decreases the exposure time.
ExpDecStep == Evaluated /\ last_action' = "exp_dec" /\ pc' = "while"

\* The results of a decrease by 1.4 and by 2.
DecreasedBy14(e) == {ClampMin(n) : n \in DivDamped(e)}
DecreasedBy2(e) == ClampMin(Half(e))

\* C15 as stated: an exposure decrease divides by 1.4 exactly when the
\* iteration before it increased the exposure, and by 2 otherwise; an
\* exposure increase multiplies by 1.4 exactly when the iteration before it
\* decreased the exposure, and by 2 otherwise.
C15_PreviousIterationDamping ==
    [][ /\ ExpDecStep =>
             IF last_action = "exp_inc"
             THEN current_exposure' \in DecreasedBy14(current_exposure)
             ELSE current_exposure' = DecreasedBy2(current_exposure)
        /\ ExpIncStep =>
             IF last_action = "exp_dec"
             THEN current_exposure' \in IncreasedBy14(current_exposure)
             ELSE current_exposure' = IncreasedBy2(current_exposure)
      ]_vars

\* The direction flags that describe the adjustment `action` and nothing
\* else.
FlagsOf(action) ==
    <<action = "exp_inc", action = "exp_dec", action = "gain_inc", action = "gain_dec">>

\* C16 as stated: after an iteration that adjusts a setting, the direction
\* flags are exactly those of the adjustment just made: the flags of the
\* other axis and of the opposite direction are false.
C16_FlagsAreLastAction ==
    (pc = "while" /\ last_action # "none") => flags = FlagsOf(last_action)

\* C17: within a run the gain is never raised in one iteration and lowered
\* in the next, nor lowered in one and raised in the next.
C17_NoGainOscillation ==
    [][ Evaluated =>
          /\ last_action = "gain_inc" => current_gain' >= current_gain
          /\ last_action = "gain_dec" => current_gain' <= current_gain
      ]_vars

\* C17 witness: the gain was raised at 1.0 s, the next frame was too
\* bright, and the exposure was halved with the gain left above MINGAIN.
C17_Witness ==
    /\ pc = "while"
    /\ Captures = 2
    /\ moved = {"gain_inc", "exp_dec"}
    /\ last_action = "exp_dec"
    /\ current_exposure = Half(EXPOSURE_THRESHOLD)
    /\ current_gain > MINGAIN

\* C18: an iteration writes one exposure and then waits once for its frame,
\* so at most one exposure is under way at any time, and none when the next
\* one is written: the control thread is past the wait only when the frame
\* of the exposure it wrote has arrived.
C18_OneOutstanding ==
    /\ Cardinality(ccd.exposing) <= 1
    /\ ccd.exposing # {} =>
          (pc = "getimg" /\ \A f \in ccd.exposing : f.id = nframes)
    /\ pc \in {"getimg", "getimg_read", "evaluate"} => Captures = MAXTRY - count
    /\ pc \in {"capture", "capture_clear", "capture_exposure"} =>
          (Captures = MAXTRY - count - 1 /\ ccd.exposing = {})
    /\ (pc \in {"getimg_read", "evaluate"} \/ (pc = "while" /\ Captures > 0)) =>
          ccd.ccd1.id = nframes

\* C18 witness: the third exposure of a run is under way, the two before
\* it have been received.
C18_Witness ==
    /\ pc = "getimg"
    /\ Captures = 3
    /\ Cardinality(ccd.exposing) = 1
    /\ ccd.ccd1.id = nframes - 1

\* C19 as stated: a run stops early on a too bright frame only at MINEXP
\* with MINGAIN, and on a too dark frame only at MAXEXP with MAXGAIN.
C19_StopsOnlyAtCorner ==
    [][ (Evaluated /\ pc' = "finish") =>
          /\ TooBright(mean) =>
               (current_exposure' = MINEXP /\ current_gain' = MINGAIN)
          /\ (~TooBright(mean) /\ TooDark(mean)) =>
               (current_exposure' = MAXEXP /\ current_gain' = MAXGAIN)
      ]_vars

\* C20: the four direction flags are never all true together.
C20_NotAllFlags ==
    ~(last_exp_inc /\ last_exp_dec /\ last_gain_inc /\ last_gain_dec)

\* C20 witness: a run has moved the exposure both ways and then raised the
\* gain: three of the four flags are true.
C20_Witness ==
    /\ pc = "while"
    /\ last_action = "gain_inc"
    /\ last_exp_inc /\ last_exp_dec /\ last_gain_inc
    /\ ~last_gain_dec

\* C21 as stated: in qhy5-capture.py an image notification that arrives
\* between the end of CCDconnect and the exposure write of CCDcapture cannot
\* satisfy the wait of CCDprocessData: once the exposure is written, the
\* event is set only if the notification of that exposure has set it.
C21_StaleNotSeen ==
    /\ pc = "cap_process" => (blobEvent.flag => armed \in blobEvent.by)
    /\ pc = "cap_process_read" => armed \in blobEvent.by

\* C22 as stated: updateProperty never handles an image update while
\* blobEvent has not been created.
C22_EventBeforeBlob ==
    [][ ccd'.ccd1 # ccd.ccd1 => blobEvent.created ]_vars

\* C23: an iteration changes gain or exposure, never both, and never offset
\* or binning; a too bright frame raises neither gain nor exposure and a too
\* dark frame lowers neither; every exposure of a run is started with the
\* offset and binning of the options.
C23_OneAxisPerIteration ==
    [][ /\ Evaluated =>
             /\ current_gain' = current_gain \/ current_exposure' = current_exposure
             /\ current_offset' = current_offset
             /\ current_binning' = current_binning
             /\ TooBright(mean) =>
                  /\ current_gain' <= current_gain
                  /\ ExpLE(current_exposure', current_exposure)
             /\ (~TooBright(mean) /\ TooDark(mean)) =>
                  /\ current_gain' >= current_gain
                  /\ ExpGE(current_exposure', current_exposure)
        /\ nframes' # nframes =>
             \A f \in ccd'.exposing :
                 f.offset = options.offset /\ f.binning = options.binning
      ]_vars

\* C23 witness: a run has lowered the gain in some iterations and the
\* exposure in others, and a further exposure is under way with the offset
\* and binning of the options.
C23_Witness ==
    /\ pc = "getimg"
    /\ Captures >= 3
    /\ moved = {"gain_dec", "exp_dec"}
    /\ \E f \in ccd.exposing : f.offset = options.offset /\ f.binning = options.binning

\* The settings of the options.
Configured == <<options.gain, options.offset, options.binning, options.exposure>>

\* C24: the first run after CCDconnect starts from the settings of the
\* options; a further run of the loop starts from the gain and exposure the
\* run before it left (those CCDwriteImg captioned); every run starts with
\* the four flags false and MAXTRY attempts, and its first exposure is
\* started with the settings it began with.
C24_LoopCarriesSettings ==
    [][ /\ (pc = "connect_event" /\ pc' = "auto") => settings' = Configured
        /\ (pc = "main" /\ pc' = "auto") =>
             /\ settings' = settings
             /\ current_gain' = result.gain
             /\ current_exposure' = result.exposure
        /\ (pc = "auto" /\ pc' # "auto") =>
             /\ pc' = "while"
             /\ settings' = settings
             /\ flags' = <<FALSE, FALSE, FALSE, FALSE>>
             /\ count' = MAXTRY
        /\ (nframes' # nframes /\ Captures = 0 /\ nruns > 1 /\ moved = {}) =>
             \A f \in ccd'.exposing :
                 (f.gain = current_gain /\ f.exposure = current_exposure)
      ]_vars

\* C24 witness: the second run of a loop begins with settings that are not
\* those of the options, left by a first run that moved both gain and
\* exposure.
C24_Witness ==
    /\ pc = "while"
    /\ nruns = 2
    /\ count = MAXTRY
    /\ flags = <<FALSE, FALSE, FALSE, FALSE>>
    /\ current_gain # options.gain
    /\ current_exposure # options.exposure
    /\ current_gain = result.gain
    /\ current_exposure = result.exposure

====
